---- MODULE Spec2Model ----
(***************************************************************************)
(* Static Huffman coding (Ayxan13/HuffmanCoding, src/Huffman.h and         *)
(* src/Huffman.cpp): Encoded::encode builds the node arena and the bit      *)
(* sequence of an input, Encoded::decode walks the arena bit by bit.        *)
(*                                                                         *)
(* Arena indices are the 0-based int16_t indices of the source; the        *)
(* operator At reads a 0-based index out of a TLA+ sequence.  An arena has  *)
(* at most 2 * 256 - 1 nodes and a count is at most the input's length, so  *)
(* neither int16_t nor size_t wraps and both are plain integers here.       *)
(*                                                                         *)
(* The definitions named "Faulty variant of X" are X with one slip; the     *)
(* properties at the end are required to tell X from them.                  *)
(***************************************************************************)
EXTENDS Integers, Sequences, FiniteSets, Bags, TLC

\* ---------------------------------------------------------------- bounds
\* Number of distinct byte values the inputs are drawn from.
NumBytes == 3
\* Longest input byte sequence.
MaxLen == 4
\* Number of decode() calls made on one artifact.
MaxDecodes == 2
\* Longest codeword of the competing prefix-free codes (optimality).
MaxCodeLen == 3

\* ------------------------------------------------------ program constants
UCHAR_MAX == 255

\* The byte values the inputs use: the low values and the highest one.
Alphabet == {b \in 0..UCHAR_MAX : b < NumBytes - 1 \/ b = UCHAR_MAX}

Inputs == UNION {[1..n -> Alphabet] : n \in 0..MaxLen}

At(s, i) == s[i + 1]

\* ------------------------------------------------------------ Huffman.h
\* struct Node { int16_t left; int16_t right; uint8_t value; }
Node(l, r, v) == [left |-> l, right |-> r, value |-> v]

isLeaf(n) == (n.left = -1) /\ (n.right = -1)

\* struct NodeWithCount { Node node; size_t count; }
NodeWithCount(n, c) == [node |-> n, count |-> c]

\* Encoded::root() and Encoded::root_index(): the last element.
root(nodes) == nodes[Len(nodes)]

root_index(nodes) == Len(nodes) - 1

\* ---------------------------------------------------------- Huffman.cpp
\* count_bytes: one counter per byte value, ++counts[ch] for every ch.
count_bytes(bytes) ==
  [b \in 0..UCHAR_MAX |-> Cardinality({i \in DOMAIN bytes : bytes[i] = b})]

\* Faulty variant of make_leaf_nodes: the test counts[i] > 1 in place of counts[i].
make_leaf_nodes_gt1(counts) ==
  LET present == {i \in DOMAIN counts : counts[i] > 1}
      nth(j)  == CHOOSE i \in present :
                   Cardinality({c \in present : c < i}) = j - 1
  IN [j \in 1..Cardinality(present) |->
        NodeWithCount(Node(-1, -1, nth(j)), counts[nth(j)])]

\* make_leaf_nodes: the loop visits i = 0 .. counts.size()-1 in ascending
\* order and appends a leaf for every i with counts[i] != 0, so the j-th
\* leaf appended is the byte value with j-1 smaller present values.
make_leaf_nodes(counts) ==
  LET present == {i \in DOMAIN counts : counts[i] # 0}
      nth(j)  == CHOOSE i \in present :
                   Cardinality({c \in present : c < i}) = j - 1
  IN [j \in 1..Cardinality(present) |->
        NodeWithCount(Node(-1, -1, nth(j)), counts[nth(j)])]

\* Faulty variant of cmp: the comparison not reversed.
cmp_not_reversed(nws, lhs, rhs) == At(nws, lhs).count < At(nws, rhs).count

\* The comparator of the priority queue ("reverse compare").
cmp(nws, lhs, rhs) == At(nws, lhs).count > At(nws, rhs).count

\* std::priority_queue::top(): an element no other element is ordered
\* after by cmp.  Which of several such elements the heap holds in front
\* is left to the library's heap algorithms, so any of them may be the top.
queue_top(nws, q) == {t \in q : \A x \in q : ~cmp(nws, t, x)}

\* switch (queue.size()), case 0: the arena of the empty input.
empty_tree == <<Node(-1, -1, 0)>>

\* Faulty variant of single_symbol_tree: the leaf hung on the left.
single_symbol_tree_left(front) == <<Node(-1, -1, front), Node(0, -1, 0)>>

\* switch (queue.size()), case 1: the arena of a one-symbol input.
single_symbol_tree(front) == <<Node(-1, -1, front), Node(-1, 0, 0)>>

\* Faulty variant of internal_node: the two popped indices in the other order.
internal_node_swapped(b1, b2) == Node(b2, b1, 0)

\* Faulty variant of internal_node: the initialisers shifted by one field.
internal_node_shifted(b1, b2) == Node(0, b1, b2)

\* The node a merge appends: Node{back1, back2, 0}.
internal_node(b1, b2) == Node(b1, b2, 0)

\* The transform at the end of init_tree: nodes_[i] = nodes_with_size[i].node
strip_counts(nws) == [i \in 1..Len(nws) |-> nws[i].node]

\* CharDictT dict = {}: 256 empty strings.
empty_dict == [b \in 0..UCHAR_MAX |-> <<>>]

\* Faulty variant of init_dict: key.back() = 1 left out before the right subtree.
RECURSIVE init_dict_no_one(_, _, _, _)
init_dict_no_one(nodes, rt, dict, key) ==
  IF rt < 0 THEN dict
  ELSE IF rt >= Len(nodes) THEN dict
  ELSE LET elm == At(nodes, rt) IN
    IF isLeaf(elm) THEN [dict EXCEPT ![elm.value] = key]
    ELSE init_dict_no_one(nodes, elm.right,
                   init_dict_no_one(nodes, elm.left, dict, Append(key, 0)),
                   Append(key, 0))

\* init_dict(nodes, root, dict, key): the depth-first walk.  The result is
\* the dictionary after the call; key is passed by value here because the
\* source restores it (pop_back) before returning.  An index at or beyond
\* nodes.size() is what the assert excludes; the walk stops there.
RECURSIVE init_dict(_, _, _, _)
init_dict(nodes, rt, dict, key) ==
  IF rt < 0 THEN dict
  ELSE IF rt >= Len(nodes) THEN dict
  ELSE LET elm == At(nodes, rt) IN
    IF isLeaf(elm) THEN [dict EXCEPT ![elm.value] = key]
    ELSE init_dict(nodes, elm.right,
                   init_dict(nodes, elm.left, dict, Append(key, 0)),
                   Append(key, 1))

\* The operands std::reduce hands to BinOp: an element of the input
\* (uint8_t) or the initial value / a partial sum (size_t).
ByteOperand(b) == [is_byte |-> TRUE, v |-> b]

SizeOperand(n) == [is_byte |-> FALSE, v |-> n]

\* Faulty variant of BinOp: only the (size_t, size_t) overload, bytes converted.
BinOp_one_overload(dict, a, b) == a.v + b.v

\* BinOp::operator(), its four overloads chosen by the operand types.
BinOp(dict, a, b) ==
  IF ~a.is_byte /\ ~b.is_byte THEN a.v + b.v
  ELSE IF ~a.is_byte /\ b.is_byte THEN a.v + Len(dict[b.v])
  ELSE IF a.is_byte /\ ~b.is_byte THEN Len(dict[a.v]) + b.v
  ELSE Len(dict[a.v]) + Len(dict[b.v])

\* The operands of std::reduce(first, last, size_t{}, op): the initial
\* value and the elements.  The reduction may take them in any order, so
\* they are held as a bag.
RECURSIVE reduce_operands(_)
reduce_operands(bytes) ==
  IF bytes = <<>> THEN SetToBag({SizeOperand(0)})
  ELSE SetToBag({ByteOperand(Head(bytes))}) (+) reduce_operands(Tail(bytes))

\* Operands a and b taken out and their partial sum put in.
combine(dict, ops, a, b) ==
  ((ops (-) SetToBag({a})) (-) SetToBag({b}))
    (+) SetToBag({SizeOperand(BinOp(dict, a, b))})

\* What std::reduce can return with the execution policy par_unseq: it
\* combines any two of its operands, either way round, until one is left,
\* in whatever order and grouping the execution takes them.  pending is
\* the set of operand bags the reduction can have come to.
RECURSIVE reduce_outcomes(_, _)
reduce_outcomes(dict, pending) ==
  IF \A ops \in pending : BagCardinality(ops) = 1
    THEN {a.v : a \in UNION {BagToSet(ops) : ops \in pending}}
    ELSE reduce_outcomes(dict,
           UNION {{combine(dict, ops, p[1], p[2]) :
                     p \in {q \in BagToSet(ops) \X BagToSet(ops) :
                              q[1] # q[2] \/ CopiesIn(q[1], ops) > 1}} :
                  ops \in pending})

reduce(dict, bytes) == reduce_outcomes(dict, {reduce_operands(bytes)})

\* Faulty variant of resize: one bit too many.
resize_plus_one(size) == [i \in 1..(size + 1) |-> FALSE]

\* binary_data_.resize(size) on the empty vector: size bits, all false.
resize(size) == [i \in 1..size |-> FALSE]

\* binary_data_[bit_iter++] = !!bit for every bit of one dictionary entry.
\* st is the vector, bit_iter, and whether a write fell outside the vector
\* (undefined behaviour: ub records it, whatever else it may do).
RECURSIVE write_key(_, _)
write_key(st, key) ==
  IF key = <<>> THEN st
  ELSE write_key(
         IF st.bit_iter < Len(st.data)
           THEN [data     |-> [st.data EXCEPT ![st.bit_iter + 1] = (Head(key) # 0)],
                 bit_iter |-> st.bit_iter + 1,
                 ub       |-> st.ub]
           ELSE [data     |-> st.data,
                 bit_iter |-> st.bit_iter + 1,
                 ub       |-> TRUE],
         Tail(key))

\* Step 3 of init_binary_data: for (ch : input_data) for (bit : dict[ch]).
RECURSIVE fill(_, _, _)
fill(st, bytes, dict) ==
  IF bytes = <<>> THEN st
  ELSE fill(write_key(st, dict[Head(bytes)]), Tail(bytes), dict)

\* static_cast<char>(node.value), char being a signed 8-bit type (where
\* char is unsigned, this and to_uint8 change nothing).
to_char(v) == IF v > 127 THEN v - 256 ELSE v

\* The byte a char of the returned string holds (the uint8_t view the
\* encode adapters take of a string's chars).
to_uint8(c) == c % 256

\* Faulty variant of child_index: the two branches exchanged.
child_index_exchanged(node, go_right) ==
  IF go_right THEN node.left ELSE node.right

\* The node the decoder moves to for one bit.
child_index(node, go_right) == IF go_right THEN node.right ELSE node.left

VARIABLES
  input_data,       \* the span handed to encode
  pc,               \* position of the caller inside encode / decode
  nodes_with_size,  \* init_tree: the nodes with their counts
  queue,            \* init_tree: the indices held by the priority queue
  back1, back2,     \* init_tree: the two indices popped by the last merge
  nodes_,           \* Encoded::nodes_
  binary_data_,     \* Encoded::binary_data_
  dict,             \* init_binary_data: the dictionary
  bit_iter,         \* init_binary_data: bit_iter after the fill pass
  node,             \* decode: the current node (a copy, as in the source)
  str,              \* decode: the string built so far
  pos,              \* decode: number of bits of binary_data_ consumed
  results,          \* the strings returned by the decode() calls so far
  ub                \* an access outside a vector has happened

vars == <<input_data, pc, nodes_with_size, queue, back1, back2, nodes_,
          binary_data_, dict, bit_iter, node, str, pos, results,
          ub>>

tree_vars == <<nodes_with_size, queue, back1, back2>>

data_vars == <<dict, bit_iter>>

decode_vars == <<node, str, pos, results>>

Init ==
  /\ input_data \in Inputs
  /\ pc = "init_tree"
  /\ nodes_with_size = <<>>
  /\ queue = {}
  /\ back1 = -1
  /\ back2 = -1
  /\ nodes_ = <<>>
  /\ binary_data_ = <<>>
  /\ dict = empty_dict
  /\ bit_iter = 0
  /\ node = Node(-1, -1, 0)
  /\ str = <<>>
  /\ pos = 0
  /\ results = <<>>
  /\ ub = FALSE

\* init_tree up to the merge loop: leaves, queue, the two trivial cases.
InitTreeBegin ==
  /\ pc = "init_tree"
  /\ LET nws == make_leaf_nodes(count_bytes(input_data))
         q   == {i \in 0..(Len(nws) - 1) : At(nws, i).count # 0}
     IN /\ nodes_with_size' = nws
        /\ queue' = q
        /\ IF Cardinality(q) = 0
             THEN /\ nodes_' = empty_tree
                  /\ pc' = "init_binary_data"
             ELSE IF Cardinality(q) = 1
               THEN /\ nodes_' = single_symbol_tree(input_data[1])
                    /\ pc' = "init_binary_data"
               ELSE /\ nodes_' = nodes_
                    /\ pc' = "merge"
  /\ UNCHANGED <<input_data, back1, back2, binary_data_, data_vars,
                 decode_vars, ub>>

\* One iteration of while (queue.size() > 1).
MergeStep ==
  /\ pc = "merge"
  /\ Cardinality(queue) > 1
  /\ \E b1 \in queue_top(nodes_with_size, queue) :
       \E b2 \in queue_top(nodes_with_size, queue \ {b1}) :
         /\ back1' = b1
         /\ back2' = b2
         /\ nodes_with_size' =
              Append(nodes_with_size,
                     NodeWithCount(internal_node(b1, b2),
                                   At(nodes_with_size, b1).count
                                     + At(nodes_with_size, b2).count))
         /\ queue' = (queue \ {b1, b2}) \cup {Len(nodes_with_size)}
  /\ UNCHANGED <<input_data, pc, nodes_, binary_data_, data_vars,
                 decode_vars, ub>>

\* The loop has ended: nodes_ receives the nodes without their counts.
MergeEnd ==
  /\ pc = "merge"
  /\ Cardinality(queue) <= 1
  /\ nodes_' = strip_counts(nodes_with_size)
  /\ pc' = "init_binary_data"
  /\ UNCHANGED <<input_data, tree_vars, binary_data_, data_vars,
                 decode_vars, ub>>

\* init_binary_data: the dictionary (step 1), the size std::reduce
\* returns (step 2), resize, and the fill pass (step 3).
InitBinaryData ==
  /\ pc = "init_binary_data"
  /\ LET d == init_dict(nodes_, root_index(nodes_), empty_dict, <<>>)
     IN \E size \in reduce(d, input_data) :
          LET st == fill([data |-> resize(size), bit_iter |-> 0, ub |-> FALSE],
                         input_data, d)
          IN /\ dict' = d
             /\ binary_data_' = st.data
             /\ bit_iter' = st.bit_iter
             /\ ub' = (ub \/ st.ub)
  /\ pc' = "encoded"
  /\ UNCHANGED <<input_data, tree_vars, nodes_, decode_vars>>

\* decode(): auto node = root(); std::string str;
DecodeBegin ==
  /\ pc = "encoded"
  /\ Len(results) < MaxDecodes
  /\ node' = root(nodes_)
  /\ str' = <<>>
  /\ pos' = 0
  /\ pc' = "decode"
  /\ UNCHANGED <<input_data, tree_vars, nodes_, binary_data_, data_vars,
                 results, ub>>

\* decode(): one iteration of for (bool i : binary_data_).  An index that
\* is -1 or otherwise outside nodes_ reads whatever lies there: ub records
\* it and the node read is any node.
DecodeStep ==
  /\ pc = "decode"
  /\ pos < Len(binary_data_)
  /\ LET idx == child_index(node, binary_data_[pos + 1])
         ok  == idx >= 0 /\ idx < Len(nodes_)
     IN \E n \in (IF ok THEN {At(nodes_, idx)}
                  ELSE {nodes_[k] : k \in DOMAIN nodes_}) :
          /\ ub' = (ub \/ ~ok)
          /\ IF isLeaf(n)
               THEN /\ str' = Append(str, to_char(n.value))
                    /\ node' = root(nodes_)
               ELSE /\ str' = str
                    /\ node' = n
  /\ pos' = pos + 1
  /\ UNCHANGED <<input_data, pc, tree_vars, nodes_, binary_data_, data_vars,
                 results>>

\* Faulty variant of DecodeReturn: the bits are consumed by the call.
DecodeReturn_consuming ==
  /\ pc = "decode"
  /\ pos >= Len(binary_data_)
  /\ results' = Append(results, str)
  /\ binary_data_' = <<>>
  /\ pc' = "encoded"
  /\ UNCHANGED <<input_data, tree_vars, nodes_, data_vars, node, str, pos,
                 ub>>

\* decode(): the loop is over, return str.
DecodeReturn ==
  /\ pc = "decode"
  /\ pos >= Len(binary_data_)
  /\ results' = Append(results, str)
  /\ pc' = "encoded"
  /\ UNCHANGED <<input_data, tree_vars, nodes_, binary_data_, data_vars,
                 node, str, pos, ub>>

\* ------------------------------------------------------------ properties
\* The byte values occurring in the input, and their number k.
Present == {input_data[i] : i \in DOMAIN input_data}

K == Cardinality(Present)

Occurrences(b) == Cardinality({i \in DOMAIN input_data : input_data[i] = b})

\* init_tree has returned / encode has returned.
TreeBuilt == pc \notin {"init_tree", "merge"}

Encoded == pc \in {"encoded", "decode"}

IsPrefix(a, b) == Len(a) <= Len(b) /\ SubSeq(b, 1, Len(a)) = a

\* Sum over the bytes of a sequence of the length of their codewords.
RECURSIVE TotalLen(_, _)
TotalLen(bytes, code) ==
  IF bytes = <<>> THEN 0
  ELSE Len(code[Head(bytes)]) + TotalLen(Tail(bytes), code)

\* The codewords of the bytes of a sequence, one after the other, as bits.
RECURSIVE Concat(_, _)
Concat(bytes, code) ==
  IF bytes = <<>> THEN <<>>
  ELSE [i \in 1..Len(code[Head(bytes)]) |-> code[Head(bytes)][i] = 1]
         \o Concat(Tail(bytes), code)

ValidIndex(i) == i >= 0 /\ i < Len(nodes_)

\* C1: every string decode() returns holds exactly the bytes of the input,
\* as many, with the same values, in the same order.
RoundTrip ==
  \A r \in DOMAIN results :
    [k \in 1..Len(results[r]) |-> to_uint8(results[r][k])] = input_data

RoundTripWitness ==
  /\ Len(results) >= 1
  /\ Len(input_data) = MaxLen
  /\ Present = Alphabet
  /\ \E k \in DOMAIN results[1] : results[1][k] < 0

\* C2: with two or more distinct byte values, the codeword of a present
\* byte value is neither a prefix of nor equal to the codeword of another.
PrefixFree ==
  (Encoded /\ K >= 2) =>
    \A a, b \in Present : a # b => ~IsPrefix(dict[a], dict[b])

PrefixFreeWitness ==
  /\ pc = "encoded"
  /\ results = <<>>
  /\ K >= 3
  /\ \E a, b \in Present : Len(dict[a]) < Len(dict[b])

\* C3: the arena holds 1 node for k = 0, 2 nodes for k = 1 and 2k-1 nodes
\* for k >= 2: k leaves, one per present byte value, then k-1 internal nodes.
ArenaSizing ==
  TreeBuilt =>
    /\ Len(nodes_) = (IF K = 0 THEN 1 ELSE IF K = 1 THEN 2 ELSE 2 * K - 1)
    /\ K >= 2 =>
         /\ \A i \in 1..K : isLeaf(nodes_[i])
         /\ {nodes_[i].value : i \in 1..K} = Present
         /\ \A i \in (K + 1)..(2 * K - 1) : ~isLeaf(nodes_[i])

ArenaSizingWitness ==
  /\ pc = "init_binary_data"
  /\ K >= 3
  /\ Len(nodes_) = 2 * K - 1

\* C4: the bit sequence has as many bits as the codeword lengths of the
\* input's bytes add up to, whatever operands the reduction has combined
\* in whatever order, and the fill pass has written exactly these bits:
\* the codewords of the bytes in input order.
BitLengthAccounting ==
  Encoded =>
       /\ Len(binary_data_) = TotalLen(input_data, dict)
       /\ bit_iter = Len(binary_data_)
       /\ binary_data_ = Concat(input_data, dict)
       /\ ~ub

BitLengthAccountingWitness ==
  /\ pc = "encoded"
  /\ results = <<>>
  /\ K >= 2
  /\ Len(input_data) = MaxLen
  /\ Len(binary_data_) > Len(input_data)

\* The non-empty codewords a competing code may use.
Codewords == UNION {[1..n -> {0, 1}] : n \in 1..MaxCodeLen}

\* A prefix-free assignment of codewords to n values gives them n distinct
\* codewords none of which is a prefix of another.  The sets of n such
\* codewords: every such set of n-1, extended by every codeword that is no
\* prefix of, and has no prefix among, the codewords of the set.
PrefixFreeSets[n \in 0..NumBytes] ==
  IF n = 0 THEN {{}}
  ELSE UNION {{S \cup {c} :
                 c \in {d \in Codewords :
                          \A e \in S : ~IsPrefix(d, e) /\ ~IsPrefix(e, d)}} :
              S \in PrefixFreeSets[n - 1]}

\* How many codewords of each length the prefix-free sets of n have.
LengthCounts ==
  [n \in 1..NumBytes |->
     {[l \in 1..MaxCodeLen |-> Cardinality({c \in S : Len(c) = l})] :
        S \in PrefixFreeSets[n]}]

\* The codeword lengths the prefix-free assignments give n values (the
\* values numbered 1..n): the codewords of a set, in every order.
LengthProfiles ==
  [n \in 1..NumBytes |->
     {p \in [1..n -> 1..MaxCodeLen] :
        [l \in 1..MaxCodeLen |-> Cardinality({i \in 1..n : p[i] = l})]
          \in LengthCounts[n]}]

\* The present byte value with r-1 smaller present values.
ValueOfRank(r) ==
  CHOOSE b \in Present : Cardinality({c \in Present : c < b}) = r - 1

\* The total length of an input whose r-th present value occurs occ[r]
\* times and has a codeword of length p[r].
RECURSIVE TotalOf(_, _)
TotalOf(occ, p) ==
  IF occ = <<>> THEN 0
  ELSE Head(occ) * Head(p) + TotalOf(Tail(occ), Tail(p))

\* C5: with two or more distinct byte values the derived code is optimal:
\* its total encoded length (count times codeword length, summed over the
\* present byte values) is at most the total length under every
\* prefix-free assignment of non-empty codewords to the present values.
Optimality ==
  (pc = "encoded" /\ K >= 2) =>
    LET occ   == [r \in 1..K |-> Occurrences(ValueOfRank(r))]
        total == TotalLen(input_data, dict)
    IN \A p \in LengthProfiles[K] : total <= TotalOf(occ, p)

OptimalityWitness ==
  /\ pc = "encoded"
  /\ K >= 3
  /\ \E p \in LengthProfiles[K] : \E r \in 1..K : p[r] = MaxCodeLen
  /\ \E a, b \in Present : Occurrences(a) < Occurrences(b)
  /\ \E a, b \in Present : Len(dict[a]) > Len(dict[b])

\* C6: an input of n >= 1 occurrences of one byte value V yields the arena
\* [Leaf(V), node(left = -1, right = 0)], the codeword 1 for V, and a bit
\* sequence of exactly n bits, all 1.
SingleSymbol ==
  K = 1 =>
    /\ TreeBuilt => nodes_ = <<Node(-1, -1, input_data[1]), Node(-1, 0, 0)>>
    /\ Encoded => dict[input_data[1]] = <<1>>
    /\ Encoded => binary_data_ = [i \in 1..Len(input_data) |-> TRUE]

SingleSymbolWitness ==
  /\ K = 1
  /\ pc = "encoded"
  /\ Len(input_data) >= 3
  /\ Len(binary_data_) = Len(input_data)

\* C7: decode() leaves the arena and the bit sequence unchanged, and all
\* the decode() calls made on one artifact return the same string.
IdempotentDecode ==
  [][/\ Encoded => (nodes_' = nodes_ /\ binary_data_' = binary_data_)
     /\ \A i, j \in DOMAIN results' : results'[i] = results'[j]]_vars

IdempotentDecodeWitness ==
  /\ Len(results) >= 2
  /\ Len(results[2]) >= 2
  /\ K >= 2

\* C8: a merge removes A and then B with count(A) <= count(B) <= the count
\* of every node still active, and appends the node (left = A, right = B)
\* with count(A) + count(B); so of two symbols with different counts the
\* less frequent has the codeword 0 and the more frequent the codeword 1.
GreedyMerge ==
  LET cnt(i) == At(nodes_with_size, i).count
      new    == Len(nodes_with_size) - 1
  IN /\ (pc = "merge" /\ back1 # -1) =>
          /\ back1 # back2
          /\ cnt(back1) <= cnt(back2)
          /\ \A q \in queue \ {new} : cnt(back2) <= cnt(q)
          /\ At(nodes_with_size, new).node = Node(back1, back2, 0)
          /\ cnt(new) = cnt(back1) + cnt(back2)
          /\ new \in queue
          /\ back1 \notin queue /\ back2 \notin queue
     /\ (Encoded /\ K = 2) =>
          \A a, b \in Present :
            Occurrences(a) < Occurrences(b)
              => (dict[a] = <<0>> /\ dict[b] = <<1>>)

GreedyMergeWitness ==
  /\ pc = "merge"
  /\ back1 # -1
  /\ \E q \in queue \ {Len(nodes_with_size) - 1} :
       At(nodes_with_size, back2).count < At(nodes_with_size, q).count

\* C9: decoding an artifact of encode, every child followed is a valid
\* arena index, never the sentinel -1, and when the last bit has been
\* consumed the decoder is back at the root.
DecoderBoundary ==
  pc = "decode" =>
    /\ ~ub
    /\ pos < Len(binary_data_) =>
         ValidIndex(child_index(node, binary_data_[pos + 1]))
    /\ pos = Len(binary_data_) => node = root(nodes_)

DecoderBoundaryWitness ==
  /\ pc = "decode"
  /\ pos = Len(binary_data_)
  /\ pos > Len(input_data)
  /\ Len(str) = MaxLen

\* A node with two children, both arena indices, and the value 0.
TwoChildren(n) == ValidIndex(n.left) /\ ValidIndex(n.right) /\ n.value = 0

\* C10 as stated: every node of the arena is a leaf or has exactly two
\* children and the value 0; no node has exactly one child.
NodeShape ==
  TreeBuilt =>
    \A i \in DOMAIN nodes_ : isLeaf(nodes_[i]) \/ TwoChildren(nodes_[i])

\* C10 amended: the same, except for the root of a one-symbol arena,
\* which has the single child 0 on the right and no left child.
NodeShapeAmended ==
  TreeBuilt =>
    \A i \in DOMAIN nodes_ :
      IF K = 1 /\ i = Len(nodes_)
        THEN nodes_[i] = Node(-1, 0, 0)
        ELSE isLeaf(nodes_[i]) \/ TwoChildren(nodes_[i])

NodeShapeAmendedWitness ==
  /\ pc = "init_binary_data"
  /\ K >= 3
  /\ \E i \in DOMAIN nodes_ : TwoChildren(nodes_[i]) /\ ~isLeaf(nodes_[i])

Next ==
  \/ InitTreeBegin
  \/ MergeStep
  \/ MergeEnd
  \/ InitBinaryData
  \/ DecodeBegin
  \/ DecodeStep
  \/ DecodeReturn

Spec == Init /\ [][Next]_vars
====
